---- MODULE Spec2Model ----
(***************************************************************************)
(* User-management handlers (users.controller.js) and the profile service  *)
(* (users.service.js) of the acquisitions API, over the users table.       *)
(*                                                                         *)
(* A handler runs synchronously from the arrival of the request up to its  *)
(* first await; every await (a statement sent to the store, the hashing of *)
(* a password) is one step of the model. Spec and FaultSpec take requests  *)
(* up one at a time; RaceSpec lets updates and deletes overlap; TwinSpec   *)
(* sends one request repeatedly while the table changes in between.        *)
(***************************************************************************)
EXTENDS Integers, FiniteSets, Sequences, TLC

\* ---------------------------------------------------------------- bounds
MaxId == 2          \* user ids are 1..MaxId
MaxInFlight == 2    \* requests that can be in flight at the same time
MaxRequests == 2    \* requests that arrive in one behaviour
MaxFields == 2      \* fields present in one update body

Ids == 1..MaxId
Slots == 1..MaxInFlight
Roles == {"user", "admin"}

\* ------------------------------------------------------------ input sets
\* req.params.id as received: 0 is a value that userIdSchema rejects.
Params == 0..MaxId
\* req.user as resolved from the session token.
Actors == [id : Ids, role : Roles]
EmailOf(i) == <<"mail", i>>
\* Emails a client can send: those of the first two users.
NewEmails == {EmailOf(1), EmailOf(2)}
Names == {"Xa"}
Passwords == {"pw"}
Fields == {"name", "email", "password", "role"}
Restrict(f, S) == [k \in S |-> f[k]]
\* A body that updateUserSchema rejects: a role outside the enumeration.
BadBody == [role |-> "root"]
\* req.body: a sparse record over Fields.
Bodies ==
  { Restrict(full, S) :
      full \in [name : Names, email : NewEmails, password : Passwords, role : Roles],
      S \in {T \in SUBSET Fields : Cardinality(T) <= MaxFields} }
    \cup {BadBody}
NoBody == Restrict([name |-> "Xa"], {})

\* ------------------------------------------------------- missing modules
\* users.validation.js: the id must be a positive integer.
userIdSchema(p) == p \in Nat \ {0}
\* users.validation.js: role, when present, is one of the enumeration.
updateUserSchema(b) == ("role" \in DOMAIN b) => (b.role \in Roles)
\* auth.service.js: one-way hash of the plaintext.
hashPassword(p) == <<"hash", p>>
\* user.model.js: unique constraint on users.email. TRUE when writing
\* `data` to row `id` of table `st` would violate it.
EmailUniqueViolated(st, id, data) ==
  /\ id \in DOMAIN st
  /\ "email" \in DOMAIN data
  /\ \E j \in DOMAIN st \ {id} : st[j].email = data.email

\* ----------------------------------------------------------------- state
VARIABLES
  store,      \* the users table: a function from the ids of the live rows to the rows
  reqs,       \* the requests in flight, by the slot each one occupies
  last,       \* the request that finished most recently, with its outcome,
              \* until the next request is taken up
  now,        \* the latest reading of the clock by new Date()
  started     \* number of requests that have arrived

vars == <<store, reqs, last, now, started>>

\* Variant: a select without a column list (every column, password included).
ProjectEveryColumn(row) == row

\* The columns selected by getAllUsers / getUserById / returning(): no password.
Project(row) ==
  [id |-> row.id, name |-> row.name, email |-> row.email, role |-> row.role,
   created_at |-> row.created_at, updated_at |-> row.updated_at]

NoOut == [kind |-> "none", status |-> 0, error |-> "", users |-> {}]
Res(st, us) == [kind |-> "res", status |-> st, error |-> "", users |-> us]
ResErr(st, msg) == [kind |-> "res", status |-> st, error |-> msg, users |-> {}]
NextErr(msg) == [kind |-> "next", status |-> 0, error |-> msg, users |-> {}]

IdleReq ==
  [op |-> "none", actor |-> [id |-> 1, role |-> "user"], id |-> 0, body |-> NoBody,
   pc |-> "idle", updateData |-> NoBody, called |-> "none", dbCalls |-> 0,
   wrote |-> FALSE, out |-> NoOut, outs |-> 0]

\* A freshly arrived request.
NewReq(op, actor, p, body) ==
  [IdleReq EXCEPT !.op = op, !.actor = actor, !.id = p, !.body = body]

InitRow(i, r) ==
  [id |-> i, name |-> "n0", email |-> EmailOf(i), password |-> hashPassword("p0"),
   role |-> r, created_at |-> 0, updated_at |-> 0]

\* The table as sign-up leaves it: distinct emails, hashed passwords.
Init ==
  /\ \E S \in SUBSET Ids : \E r \in [S -> Roles] :
        store = [i \in S |-> InitRow(i, r[i])]
  /\ reqs = [s \in {} |-> IdleReq]
  /\ last = IdleReq
  /\ now = 0
  /\ started = 0

\* The lowest free slot: the one an arriving request occupies.
Free(s) ==
  /\ s \notin DOMAIN reqs
  /\ \A t \in Slots : t < s => t \in DOMAIN reqs

\* One outcome leaves the handler: res.status(..).json(..) or next(e).
Emit(r, out) == [r EXCEPT !.out = out, !.outs = @ + 1]

RECURSIVE EmitAll(_, _)
EmitAll(r, os) == IF os = <<>> THEN r ELSE EmitAll(Emit(r, Head(os)), Tail(os))

\* The handler has answered (res.status(..).json(..)) and returns.
Finish(s, r, out) ==
  /\ reqs' = [t \in DOMAIN reqs \ {s} |-> reqs[t]]
  /\ last' = [Emit(r, out) EXCEPT !.pc = "done"]

\* Variant: the `return` before res.status(404) left out, so that the catch
\* block runs on to next(e).
CatchWithoutReturn(op, msg) ==
  IF op # "fetchAll" /\ msg = "User not found"
    THEN <<ResErr(404, "User not found"), NextErr(msg)>>
  ELSE IF op = "update" /\ msg = "User with this email already exists"
    THEN <<ResErr(409, "Email already exists"), NextErr(msg)>>
  ELSE <<NextErr(msg)>>

\* The catch block of the handler `op`, entered with an error of message
\* msg: the outcomes it emits, in order.
Catch(op, msg) ==
  IF op # "fetchAll" /\ msg = "User not found"
    THEN <<ResErr(404, "User not found")>>
  ELSE IF op = "update" /\ msg = "User with this email already exists"
    THEN <<ResErr(409, "Email already exists")>>
  ELSE <<NextErr(msg)>>

\* The awaited service call throws: the catch block of the handler runs.
Thrown(s, r, msg) ==
  /\ reqs' = [t \in DOMAIN reqs \ {s} |-> reqs[t]]
  /\ last' = [EmitAll(r, Catch(r.op, msg)) EXCEPT !.pc = "done"]

\* The handler awaits a call of the service.
Go(s, r) ==
  /\ reqs' = [t \in DOMAIN reqs \cup {s} |-> IF t = s THEN r ELSE reqs[t]]
  /\ UNCHANGED last

\* The answer (or the error given to next) has left the handler.
ResponseSent ==
  /\ last.pc = "done"
  /\ last' = IdleReq
  /\ UNCHANGED <<store, reqs, now, started>>

\* ------------------------------------------------- authorization checks
\* Variant: the role test of fetchAllUsers left out.
FetchAllNeverDenied(actor) == FALSE

\* Variant: the role looked up in the actor's row instead of the token.
FetchAllDeniedByStoredRole(actor) ==
  actor.id \notin DOMAIN store \/ store[actor.id].role # "admin"

\* fetchAllUsers: `req.user.role !== 'admin'`.
FetchAllDenied(actor) == actor.role # "admin"

\* Variant: `||` in place of `&&`.
NotSelfOrNotAdmin(actor, id) == actor.role # "admin" \/ actor.id # id

\* fetchUserById / updateUserById: `role !== 'admin' && req.user.id !== id`.
NotSelfNorAdmin(actor, id) == actor.role # "admin" /\ actor.id # id

\* Variant: the role-change test left out.
RoleChangeNeverDenied(actor, updates) == FALSE

\* Variant: `===` in place of `!==`.
RoleChangeDeniedForAdmin(actor, updates) ==
  "role" \in DOMAIN updates /\ actor.role = "admin"

\* updateUserById: `updates.role && req.user.role !== 'admin'`.
RoleChangeDenied(actor, updates) ==
  "role" \in DOMAIN updates /\ actor.role # "admin"

\* Variant: the self-deletion test applied to non-admin actors only.
SelfDeleteNonAdminOnly(actor, id) == actor.id = id /\ actor.role # "admin"

\* deleteUserById: `req.user.id === id`.
SelfDelete(actor, id) == actor.id = id

\* ------------------------------------------------------ store operations
\* getAllUsers: select {id, name, email, role, created_at, updated_at} from users.
SelectAll(st) == {Project(st[i]) : i \in DOMAIN st}

\* getUserById: the same columns, where id = $id limit 1 (at most one row).
SelectById(st, id) == IF id \in DOMAIN st THEN {Project(st[id])} ELSE {}

\* updateUser / deleteUser: select {id, email} where id = $id limit 1.
SelectIdEmail(st, id) ==
  IF id \in DOMAIN st THEN {[id |-> id, email |-> st[id].email]} ELSE {}

\* Variant: the `if (!user)` test left out.
NotFoundNever(rows) == FALSE

\* `const [user] = await ...; if (!user)`: the select returned no row.
NotFound(rows) == rows = {}

\* Variant: `updateData.updated_at = new Date()` left out.
UpdateDataNoTimestamp(updates, t) ==
  [k \in DOMAIN updates |->
     IF k = "password" THEN hashPassword(updates[k]) ELSE updates[k]]

\* updateUser: updateData = {...updates}, password hashed, updated_at stamped.
UpdateData(updates, t) ==
  [k \in DOMAIN updates \cup {"updated_at"} |->
     IF k = "updated_at" THEN t
     ELSE IF k = "password" THEN hashPassword(updates[k])
     ELSE updates[k]]

\* update users set <data> : the columns of data overwrite those of the row.
SetColumns(row, data) ==
  [c \in DOMAIN row |-> IF c \in DOMAIN data THEN data[c] ELSE row[c]]

\* update users set <data> where id = $id : the table afterwards.
UpdateRows(st, id, data) ==
  [i \in DOMAIN st |-> IF i = id THEN SetColumns(st[i], data) ELSE st[i]]

\* Variant: the rows are written although the statement reports an error.
UpdateCommitAlways(st, id, data, ok) == UpdateRows(st, id, data)

\* db.update(..).set(..).where(..): the table after the statement; a
\* statement that fails (connection error, constraint violation) writes nothing.
UpdateCommit(st, id, data, ok) ==
  IF ok /\ ~EmailUniqueViolated(st, id, data) THEN UpdateRows(st, id, data) ELSE st

\* delete from users where id = $id : the table afterwards.
\* Variant: the delete statement without its where clause.
DeleteEveryRow(st, id) == [i \in {} |-> st[i]]

DeleteRows(st, id) == [i \in DOMAIN st \ {id} |-> st[i]]

DeleteCommit(st, id, ok) == IF ok THEN DeleteRows(st, id) ELSE st

\* returning({...}) of the update: the projected rows that matched.
Returning(st, id) == IF id \in DOMAIN st THEN {Project(st[id])} ELSE {}

\* ------------------------------------------------------------- handlers
\* new Date(): every reading of the clock is later than the one before it
\* (a round trip to the store lies between any two readings).
NewDate(t) == t + 1

\* One await on the store: the request has used the store once more.
Await(r) == [r EXCEPT !.dbCalls = @ + 1]

\* fetchAllUsers, up to `await getAllUsers()`.
FetchAllUsers(s, actor) ==
  /\ LET r == NewReq("fetchAll", actor, 0, NoBody) IN
       IF FetchAllDenied(actor) THEN Finish(s, r, ResErr(403, "Access denied"))
       ELSE Go(s, [r EXCEPT !.pc = "getAll", !.called = "getAllUsers"])
  /\ started' = started + 1
  /\ UNCHANGED <<store, now>>

\* getAllUsers: the select returns (or throws), fetchAllUsers answers.
GetAllUsersReturn(s, ok) ==
  /\ s \in DOMAIN reqs /\ reqs[s].pc = "getAll"
  /\ IF ok THEN Finish(s, Await(reqs[s]), Res(200, SelectAll(store)))
     ELSE Thrown(s, Await(reqs[s]), "Error fetching users")
  /\ UNCHANGED <<store, now, started>>

\* fetchUserById, up to `await getUserById(id)`.
FetchUserById(s, actor, p) ==
  /\ LET r == NewReq("fetch", actor, p, NoBody) IN
       IF ~userIdSchema(p) THEN Finish(s, r, ResErr(400, "Validation failed"))
       ELSE IF NotSelfNorAdmin(actor, p) THEN Finish(s, r, ResErr(403, "Access denied"))
       ELSE Go(s, [r EXCEPT !.pc = "getOne", !.called = "getUserById"])
  /\ started' = started + 1
  /\ UNCHANGED <<store, now>>

\* getUserById: the select returns (or throws), fetchUserById answers.
GetUserByIdReturn(s, ok) ==
  /\ s \in DOMAIN reqs /\ reqs[s].pc = "getOne"
  /\ LET r == Await(reqs[s]) IN
       IF ~ok THEN Thrown(s, r, "store error")
       ELSE IF NotFound(SelectById(store, r.id))
         THEN Thrown(s, r, "User not found")
       ELSE Finish(s, r, Res(200, SelectById(store, r.id)))
  /\ UNCHANGED <<store, now, started>>

\* updateUserById, up to `await updateUser(id, updates)`.
UpdateUserById(s, actor, p, body) ==
  /\ LET r == NewReq("update", actor, p, body) IN
       IF ~userIdSchema(p) THEN Finish(s, r, ResErr(400, "Validation failed"))
       ELSE IF ~updateUserSchema(body) THEN Finish(s, r, ResErr(400, "Validation failed"))
       ELSE IF NotSelfNorAdmin(actor, p) THEN Finish(s, r, ResErr(403, "Access denied"))
       ELSE IF RoleChangeDenied(actor, body) THEN Finish(s, r, ResErr(403, "Access denied"))
       ELSE Go(s, [r EXCEPT !.pc = "updSelect", !.called = "updateUser"])
  /\ started' = started + 1
  /\ UNCHANGED <<store, now>>

\* updateUser: the existence select returns (or throws). Without a password
\* in the updates the code runs on to new Date() and issues the update.
UpdateUserSelect(s, ok) ==
  /\ s \in DOMAIN reqs /\ reqs[s].pc = "updSelect"
  /\ LET r == Await(reqs[s]) IN
       IF ~ok THEN Thrown(s, r, "store error") /\ UNCHANGED now
       ELSE IF NotFound(SelectIdEmail(store, r.id))
         THEN Thrown(s, r, "User not found") /\ UNCHANGED now
       ELSE IF "password" \in DOMAIN r.body
         THEN Go(s, [r EXCEPT !.pc = "updHash"]) /\ UNCHANGED now
       ELSE /\ now' = NewDate(now)
            /\ Go(s, [r EXCEPT !.pc = "updWrite", !.updateData = UpdateData(r.body, now')])
  /\ UNCHANGED <<store, started>>

\* updateUser: `await hashPassword(..)` returns, then new Date(), then the
\* update is issued.
UpdateUserHash(s) ==
  /\ s \in DOMAIN reqs /\ reqs[s].pc = "updHash"
  /\ now' = NewDate(now)
  /\ LET r == reqs[s] IN
       Go(s, [r EXCEPT !.pc = "updWrite", !.updateData = UpdateData(r.body, now')])
  /\ UNCHANGED <<store, started>>

\* updateUser: the update statement returns (or throws), updateUserById
\* answers. Errors of the store do not carry the messages the handler maps
\* to 404 / 409, so they are forwarded to next(e).
UpdateUserWrite(s, ok) ==
  /\ s \in DOMAIN reqs /\ reqs[s].pc = "updWrite"
  /\ LET id == reqs[s].id
         data == reqs[s].updateData
     IN
       /\ store' = UpdateCommit(store, id, data, ok)
       /\ LET r == [Await(reqs[s]) EXCEPT !.wrote = (store' # store)] IN
            IF ~ok THEN Thrown(s, r, "store error")
            ELSE IF EmailUniqueViolated(store, id, data)
              THEN Thrown(s, r, "duplicate key value violates unique constraint")
            ELSE Finish(s, r, Res(200, Returning(store', id)))
  /\ UNCHANGED <<now, started>>

\* deleteUserById, up to `await deleteUser(id)`.
DeleteUserById(s, actor, p) ==
  /\ LET r == NewReq("delete", actor, p, NoBody) IN
       IF ~userIdSchema(p) THEN Finish(s, r, ResErr(400, "Validation failed"))
       ELSE IF SelfDelete(actor, p) THEN Finish(s, r, ResErr(400, "Invalid operation"))
       ELSE Go(s, [r EXCEPT !.pc = "delSelect", !.called = "deleteUser"])
  /\ started' = started + 1
  /\ UNCHANGED <<store, now>>

\* deleteUser: the existence select returns (or throws).
DeleteUserSelect(s, ok) ==
  /\ s \in DOMAIN reqs /\ reqs[s].pc = "delSelect"
  /\ LET r == Await(reqs[s]) IN
       IF ~ok THEN Thrown(s, r, "store error")
       ELSE IF NotFound(SelectIdEmail(store, r.id))
         THEN Thrown(s, r, "User not found")
       ELSE Go(s, [r EXCEPT !.pc = "delWrite"])
  /\ UNCHANGED <<store, now, started>>

\* deleteUser: the delete statement returns (or throws), deleteUserById answers.
DeleteUserWrite(s, ok) ==
  /\ s \in DOMAIN reqs /\ reqs[s].pc = "delWrite"
  /\ store' = DeleteCommit(store, reqs[s].id, ok)
  /\ LET r == [Await(reqs[s]) EXCEPT !.wrote = (store' # store)] IN
       IF ok THEN Finish(s, r, Res(200, {}))
       ELSE Thrown(s, r, "store error")
  /\ UNCHANGED <<now, started>>

\* ------------------------------------------------------- specifications
\* One of the four handlers runs, for some request of the actor, up to its
\* first await.
Handle(s, actor) ==
  \/ FetchAllUsers(s, actor)
  \/ \E p \in Params :
       \/ FetchUserById(s, actor, p)
       \/ DeleteUserById(s, actor, p)
       \/ \E body \in Bodies : UpdateUserById(s, actor, p, body)

\* A request arrives and its handler runs up to its first await.
Arrive ==
  /\ started < MaxRequests
  /\ last.pc = "idle"
  /\ \E s \in {t \in Slots : Free(t)}, actor \in Actors : Handle(s, actor)

\* The awaited store call of some request returns (ok) or throws (~ok).
StoreReturns(ok) ==
  \E s \in Slots :
    \/ GetAllUsersReturn(s, ok)
    \/ GetUserByIdReturn(s, ok)
    \/ UpdateUserSelect(s, ok)
    \/ UpdateUserWrite(s, ok)
    \/ DeleteUserSelect(s, ok)
    \/ DeleteUserWrite(s, ok)

HashReturns == \E s \in Slots : UpdateUserHash(s)

Quiet == DOMAIN reqs = {}

\* Requests are handled one at a time (a request is taken up when none is
\* in flight); the store answers every statement.
Next == (Quiet /\ Arrive) \/ StoreReturns(TRUE) \/ HashReturns \/ ResponseSent
Spec == Init /\ [][Next]_vars

\* As Spec, and a statement sent to the store may throw (connection lost, ...).
FaultNext ==
  \/ (Quiet /\ Arrive)
  \/ StoreReturns(TRUE)
  \/ StoreReturns(FALSE)
  \/ HashReturns
  \/ ResponseSent
FaultSpec == Init /\ [][FaultNext]_vars

\* The requests of the races between updateUser and deleteUser: a change of
\* the name, or a delete, of any id by an admin.
RaceBody == [name |-> "Xa"]
Admins == {a \in Actors : a.role = "admin"}

\* A request arrives while others may be in flight (the event loop takes up a
\* new request whenever the running handlers are all waiting in an await).
RaceArrive ==
  /\ started < MaxRequests
  /\ last.pc = "idle"
  /\ \E s \in {t \in Slots : Free(t)}, actor \in Admins, p \in Ids :
       \/ DeleteUserById(s, actor, p)
       \/ UpdateUserById(s, actor, p, RaceBody)

\* The awaited statement of some update or delete in flight returns.
RaceStoreReturns ==
  \E s \in Slots :
    \/ UpdateUserSelect(s, TRUE)
    \/ UpdateUserWrite(s, TRUE)
    \/ DeleteUserSelect(s, TRUE)
    \/ DeleteUserWrite(s, TRUE)

\* Updates and deletes run concurrently: their statements reach the store in
\* any order, each statement on its own (no transaction spans the existence
\* select and the write).
RaceNext == RaceArrive \/ RaceStoreReturns \/ ResponseSent
RaceSpec == Init /\ [][RaceNext]_vars

\* The tables other traffic (sign-up, updates and deletes of other clients)
\* can leave behind between two requests.
Tables ==
  UNION { {[i \in S |-> InitRow(i, r[i])] : r \in [S -> Roles]} : S \in SUBSET Ids }

\* Writes of other clients commit between two requests: the next request
\* meets a different table.
OtherTraffic ==
  /\ DOMAIN reqs = {}
  /\ last.pc = "done"
  /\ started < MaxRequests
  /\ store' \in Tables \ {store}
  /\ UNCHANGED <<reqs, last, now, started>>

\* The request taken up last: in flight, or finished within its first step.
Current(rs, l) == IF DOMAIN rs # {} THEN rs[1] ELSE l

SameRequest(a, b) ==
  a.op = b.op /\ a.actor = b.actor /\ a.id = b.id /\ a.body = b.body

\* The request r is sent again: same handler, same req.user, id and body.
Again(s, r) ==
  \/ r.op = "fetchAll" /\ FetchAllUsers(s, r.actor)
  \/ r.op = "fetch" /\ FetchUserById(s, r.actor, r.id)
  \/ r.op = "update" /\ UpdateUserById(s, r.actor, r.id, r.body)
  \/ r.op = "delete" /\ DeleteUserById(s, r.actor, r.id)

\* A first request arrives, or the request before is sent again.
TwinArrive ==
  /\ started < MaxRequests
  /\ \E s \in {t \in Slots : Free(t)} :
       IF last.pc = "done" THEN Again(s, last)
       ELSE \E actor \in Actors : Handle(s, actor)

\* One request is run again and again, one run at a time, and the table
\* changes between the runs.
TwinNext ==
  \/ (DOMAIN reqs = {} /\ TwinArrive)
  \/ StoreReturns(TRUE)
  \/ HashReturns
  \/ OtherTraffic
TwinSpec == Init /\ [][TwinNext]_vars

TypeOK ==
  /\ DOMAIN store \subseteq Ids
  /\ \A i \in DOMAIN store : store[i].id = i /\ store[i].role \in Roles
  /\ DOMAIN reqs \subseteq Slots
  /\ \A s \in DOMAIN reqs : reqs[s].pc \in
       {"getAll", "getOne", "updSelect", "updHash", "updWrite", "delSelect", "delWrite"}
  /\ last.pc \in {"idle", "done"}
  /\ now \in Nat /\ started \in 0..MaxRequests

\* --------------------------------------------------------------- claims
\* The step that ends a request: the handler answers or calls next(e).
Finishes == last.pc = "idle" /\ last'.pc = "done"
Finished == last.pc = "done"
Answered(r, st) == r.out.kind = "res" /\ r.out.status = st
IsAdmin(r) == r.actor.role = "admin"
IsSelf(r) == r.actor.id = r.id
\* The request never reached the service, so the store was not used.
NoStoreAccess(r) == r.called = "none" /\ r.dbCalls = 0 /\ ~r.wrote

\* C1 (as claimed): for actor.id # target, deleteUserById removes the row and
\* answers 200 only if the actor is admin; a non-admin actor is answered 403
\* and the target row stays in the store.
C1_NonAdminDeleteDenied ==
  (Finished /\ last.op = "delete" /\ userIdSchema(last.id) /\ ~IsSelf(last))
    => /\ (Answered(last, 200) \/ last.wrote) => IsAdmin(last)
       /\ ~IsAdmin(last) => (Answered(last, 403) /\ ~last.wrote)

\* C2: deleteUserById with target id equal to actor.id is answered 400 for
\* every role, deleteUser is not called and the store is left as it was.
C2_SelfDeleteRejected ==
  [][ (Finishes /\ last'.op = "delete" /\ userIdSchema(last'.id) /\ IsSelf(last'))
        => /\ Answered(last', 400)
           /\ NoStoreAccess(last')
           /\ store' = store ]_vars

C2_Witness ==
  /\ Finished /\ last.op = "delete" /\ IsSelf(last) /\ IsAdmin(last)
  /\ Answered(last, 400)
  /\ last.id \in DOMAIN store

\* C3: the role of a stored row changes only in the step of an updateUserById
\* request whose actor is admin; a request of a non-admin actor leaves the
\* role of every row, the actor's own included, as it was.
C3_RoleChangeOnlyByAdmin ==
  [][ \A i \in DOMAIN store \cap DOMAIN store' :
        store'[i].role # store[i].role
          => /\ Finishes /\ last'.op = "update" /\ IsAdmin(last')
             /\ "role" \in DOMAIN last'.body ]_vars

C3_Witness ==
  /\ Finished /\ last.op = "update" /\ ~IsAdmin(last) /\ IsSelf(last)
  /\ Answered(last, 200) /\ last.wrote
  /\ last.id \in DOMAIN store /\ store[last.id].role = "user"

\* C4: an updateUserById request with a valid id and body, a role field in
\* the body and a non-admin actor is answered 403 and nothing of its body is
\* persisted: the store is left as it was.
C4_RoleFieldDeniedNothingPersisted ==
  [][ ( /\ Finishes /\ last'.op = "update"
        /\ userIdSchema(last'.id) /\ updateUserSchema(last'.body)
        /\ "role" \in DOMAIN last'.body /\ ~IsAdmin(last') )
        => /\ Answered(last', 403)
           /\ NoStoreAccess(last')
           /\ store' = store ]_vars

C4_Witness ==
  /\ Finished /\ last.op = "update" /\ ~IsAdmin(last) /\ IsSelf(last)
  /\ {"role", "name"} \subseteq DOMAIN last.body
  /\ Answered(last, 403)
  /\ last.id \in DOMAIN store /\ store[last.id].name # last.body.name

\* C5 (as claimed): fetchUserById / updateUserById with valid input reach the
\* service if and only if the actor is admin or the target is the actor; every
\* other request is answered 403 without any use of the store.
C5_ReachesServiceIffSelfOrAdmin ==
  ( /\ Finished /\ last.op \in {"fetch", "update"}
    /\ userIdSchema(last.id) /\ updateUserSchema(last.body) )
    => /\ (last.called # "none") <=> (IsAdmin(last) \/ IsSelf(last))
       /\ (last.called = "none") => (Answered(last, 403) /\ NoStoreAccess(last))

\* C5 (amended): such a request reaches the service if and only if the actor
\* is admin, or the target is the actor and (for an update) the body has no
\* role field; every other request is answered 403 without any use of the store.
C5_ReachesServiceIffAuthorized ==
  ( /\ Finished /\ last.op \in {"fetch", "update"}
    /\ userIdSchema(last.id) /\ updateUserSchema(last.body) )
    => /\ (last.called # "none")
            <=> (IsAdmin(last) \/ (IsSelf(last) /\ "role" \notin DOMAIN last.body))
       /\ (last.called # "none")
            => last.called = (IF last.op = "fetch" THEN "getUserById" ELSE "updateUser")
       /\ (last.called = "none") => (Answered(last, 403) /\ NoStoreAccess(last))

C5_Witness ==
  /\ Finished /\ last.op = "update" /\ ~IsAdmin(last) /\ ~IsSelf(last)
  /\ userIdSchema(last.id) /\ updateUserSchema(last.body)
  /\ Answered(last, 403) /\ last.called = "none"
  /\ last.id \in DOMAIN store

\* C6: fetchAllUsers answers 200 with all users if and only if the actor is
\* admin; a non-admin actor is answered 403 and getAllUsers is not called.
C6_FetchAllIffAdmin ==
  (Finished /\ last.op = "fetchAll")
    => /\ (Answered(last, 200) /\ last.out.users = SelectAll(store)) <=> IsAdmin(last)
       /\ ~IsAdmin(last) => (Answered(last, 403) /\ NoStoreAccess(last))

C6_Witness ==
  /\ Finished /\ last.op = "fetchAll" /\ IsAdmin(last)
  /\ Answered(last, 200) /\ Cardinality(last.out.users) = MaxId

\* C7 (as claimed): an authorized update whose email is the email of another
\* row is answered 409, and the store is left as it was.
C7_DuplicateEmailAnswered409 ==
  ( /\ Finished /\ last.op = "update" /\ last.called = "updateUser"
    /\ last.id \in DOMAIN store /\ "email" \in DOMAIN last.body
    /\ \E j \in DOMAIN store \ {last.id} : store[j].email = last.body.email )
    => (Answered(last, 409) /\ ~last.wrote)

\* C8: when the select of getUserById, updateUser or deleteUser finds no row
\* for the id, the call fails with 'User not found', the handler answers 404
\* and the store is left as it was.
C8_MissingRowAnswered404 ==
  [][ \A s \in DOMAIN reqs :
        ( /\ reqs[s].pc \in {"getOne", "updSelect", "delSelect"}
          /\ (s \in DOMAIN reqs' => reqs'[s] # reqs[s])
          /\ reqs[s].id \notin DOMAIN store )
          => /\ Finishes /\ last'.op = reqs[s].op /\ last'.id = reqs[s].id
             /\ Answered(last', 404) /\ last'.out.error = "User not found"
             /\ store' = store ]_vars

C8_Witness ==
  /\ Finished /\ last.op = "delete" /\ IsAdmin(last) /\ ~IsSelf(last)
  /\ last.called = "deleteUser" /\ last.id \notin DOMAIN store
  /\ Answered(last, 404)

\* A failure outcome: 400, 403, 404, 409, or an error given to next.
Failed(r) == r.out.kind = "next" \/ (r.out.kind = "res" /\ r.out.status # 200)

\* C9: a request that ends in a failure outcome has changed no row: the store
\* changes only in the step in which a request is answered 200.
C9_FailureLeavesStore ==
  [][ /\ (Finishes /\ Failed(last')) => (store' = store /\ ~last'.wrote)
      /\ (store' # store) => (Finishes /\ Answered(last', 200)) ]_vars

C9_Witness ==
  /\ Finished /\ last.op = "update" /\ last.out.kind = "next"
  /\ last.dbCalls = 2 /\ last.id \in DOMAIN store
  /\ "name" \in DOMAIN last.body /\ store[last.id].name # last.body.name

\* C10: after a successful updateUser(id, {name: X}), getUserById(id) returns
\* name X and a later updated_at; id, created_at, email, role and the stored
\* password are as before, and so is every other row.
C10_NameUpdateRoundTrip ==
  [][ \A s \in DOMAIN reqs :
        ( /\ reqs[s].pc = "updWrite" /\ DOMAIN reqs[s].body = {"name"}
          /\ s \notin DOMAIN reqs'
          /\ Finishes /\ last'.id = reqs[s].id /\ Answered(last', 200) )
          => LET id == reqs[s].id
                 got == SelectById(store', id)
             IN /\ id \in DOMAIN store
                /\ \E u \in got :
                     /\ got = {u} /\ last'.out.users = {u}
                     /\ u.name = reqs[s].body.name
                     /\ u.updated_at > store[id].updated_at
                     /\ u.created_at = store[id].created_at
                     /\ u.id = id
                     /\ u.email = store[id].email
                     /\ u.role = store[id].role
                /\ store'[id].password = store[id].password
                /\ DOMAIN store' = DOMAIN store
                /\ \A j \in DOMAIN store \ {id} : store'[j] = store[j] ]_vars

C10_Witness ==
  /\ Finished /\ last.op = "update" /\ DOMAIN last.body = {"name"}
  /\ Answered(last, 200)
  /\ \E u \in last.out.users : u.name = "Xa" /\ u.updated_at > u.created_at
  /\ Cardinality(DOMAIN store) = MaxId

\* C11: once deleteUserById has answered 200 for a target, a select of that
\* id finds no row (getUserById fails with 'User not found'), the delete has
\* left every other row as it was, and no step makes a missing id live again.
C11_DeletedStaysDeleted ==
  [][ /\ (Finishes /\ last'.op = "delete" /\ Answered(last', 200)) =>
           /\ NotFound(SelectById(store', last'.id))
           /\ \A i \in DOMAIN store \ {last'.id} :
                 i \in DOMAIN store' /\ store'[i] = store[i]
      /\ \A i \in Ids :
           NotFound(SelectById(store, i)) => NotFound(SelectById(store', i)) ]_vars

C11_Witness ==
  /\ Finished /\ last.op = "delete" /\ IsAdmin(last) /\ ~IsSelf(last)
  /\ Answered(last, 200) /\ last.wrote
  /\ last.id \notin DOMAIN store
  /\ DOMAIN store # {}

\* C12: every user object handed back in a 200 body (the list of
\* getAllUsers, the row of getUserById, the row returned by updateUser) has
\* exactly the six public columns and no password field, whatever the store
\* holds, also directly after a password update.
C12_NoPasswordReturned ==
  Finished =>
    \A u \in last.out.users :
      /\ "password" \notin DOMAIN u
      /\ DOMAIN u = {"id", "name", "email", "role", "created_at", "updated_at"}

C12_Witness ==
  /\ Finished /\ last.op = "update" /\ Answered(last, 200)
  /\ "password" \in DOMAIN last.body
  /\ last.out.users # {}
  /\ last.id \in DOMAIN store
  /\ store[last.id].password = hashPassword(last.body.password)

\* C13: an update whose target is gone when its update statement runs (a
\* delete has committed after the existence select) fails with 'User not
\* found' and is not answered 200.
C13_UpdateOfDeletedRowNotFound ==
  (/\ Finished /\ last.op = "update" /\ last.called = "updateUser"
   /\ last.id \notin DOMAIN store)
    => (~Answered(last, 200) /\ last.out.error = "User not found")

\* C14: a delete is answered 200 only by the request whose delete statement
\* removed the row; of two concurrent deletes of one row the other is
\* answered 404.
C14_DeleteReportedOnlyByRemover ==
  (Finished /\ last.op = "delete" /\ Answered(last, 200)) => last.wrote

\* The authorization outcome of a request: allowed (the service is called),
\* or the status of the denial.
AuthzOutcome(r) ==
  IF r.called # "none" THEN [allowed |-> TRUE, status |-> 0]
  ELSE [allowed |-> FALSE, status |-> r.out.status]

\* C15: a request sent again with the same req.user, id and body gets the
\* authorization outcome of its previous run, whatever has happened to the
\* table in between (the actor's row deleted, its stored role changed).
C15_DecisionIndependentOfStore ==
  [][ (/\ started' = started + 1
       /\ last.pc = "done"
       /\ SameRequest(Current(reqs', last'), last))
        => AuthzOutcome(Current(reqs', last')) = AuthzOutcome(last) ]_vars

C15_Witness ==
  /\ started >= 2 /\ DOMAIN reqs = {} /\ Finished
  /\ last.op = "fetchAll" /\ IsAdmin(last) /\ Answered(last, 200)
  /\ last.actor.id \notin DOMAIN store

\* The request passes the schema checks of its handler.
Valid(r) == userIdSchema(r.id) /\ (r.op = "update" => updateUserSchema(r.body))

\* The request is stopped by an authorization test of its handler.
Denied(r) ==
  IF r.op = "update"
    THEN NotSelfNorAdmin(r.actor, r.id) \/ RoleChangeDenied(r.actor, r.body)
    ELSE SelfDelete(r.actor, r.id)

\* C16: updateUserById and deleteUserById validate, then authorize, then call
\* the service, then answer: an invalid id or body is answered 400 for every
\* actor without any store access, a valid but denied request is answered
\* without any store access, and the service is called only for a valid and
\* permitted request. Every invocation of a handler emits nothing while it
\* awaits the service and ends with exactly one outcome, one response or one
\* call of next(e).
C16_ValidateAuthorizeExecuteRespond ==
  /\ \A s \in DOMAIN reqs :
       /\ reqs[s].outs = 0 /\ reqs[s].out = NoOut
       /\ reqs[s].called # "none"
       /\ reqs[s].op \in {"update", "delete"} => Valid(reqs[s]) /\ ~Denied(reqs[s])
  /\ Finished =>
       /\ last.outs = 1
       /\ last.out.kind \in {"res", "next"}
       /\ last.op \in {"update", "delete"} =>
            /\ ~Valid(last) => Answered(last, 400) /\ NoStoreAccess(last)
            /\ (Valid(last) /\ Denied(last)) =>
                 last.out.kind = "res" /\ last.out.status \in {400, 403}
                   /\ NoStoreAccess(last)
            /\ (Valid(last) /\ ~Denied(last)) =>
                 last.called # "none" /\ last.dbCalls >= 1

C16_Witness ==
  /\ Finished /\ last.op = "update"
  /\ last.body = BadBody
  /\ NotSelfNorAdmin(last.actor, last.id)
  /\ Answered(last, 400) /\ NoStoreAccess(last) /\ last.outs = 1

====
